---------------------------- MODULE Spec2Model ----------------------------
(***************************************************************************)
(* Model of the budget ledger, the legacy target-hours cache, the forecast *)
(* override store and the sprint forecast engine of the time-tracking      *)
(* dashboard (src/config/budget_database.py, src/utils/cache.py,           *)
(* src/utils/forecast_engine.py, src/components/forecast_ui.py,            *)
(* src/components/burndown_chart.py, src/app.py).                          *)
(*                                                                         *)
(* Conventions.  A nullable value (Python None, SQL NULL) is a sequence of *)
(* length 0 or 1: None == << >>, Some(x) == <<x>>.  Dates are day numbers  *)
(* (ISO date strings of equal width order like the days they denote).      *)
(* Hours are integers in units of 1/100 hour.  A name (project id,         *)
(* activity) is a string; a file name is the sequence of the parts that    *)
(* underscores separate in it.                                             *)
(***************************************************************************)
EXTENDS Integers, Sequences, FiniteSets, TLC

VARIABLES
    ledger,     \* rows of the SQLite table BudgetHistory, in insertion order
    clock,      \* the wall clock (CURRENT_TIMESTAMP, datetime.now())
    today,      \* datetime.now().date(), a day number
    last,       \* the last operation called and what it returned
    cache_dir,  \* the files of the directory cache/: file name -> text
    forecast,   \* what the last forecast rendering handed to the projector
    engine,     \* the arguments of the last ForecastEngine(bookings_df, target_hours)
    scenarios,  \* the last call of calculate_scenarios and its result
    trend,      \* what get_sprint_velocity_trend returned to the last operation
    session,    \* st.session_state: key suffix -> the mf_* values
    saved,      \* per override key, the arguments of the last save to it
    procs       \* the concurrent callers: their position and locals

ledgerVars == <<ledger, clock, today>>
cacheVars == <<cache_dir>>
uiVars == <<forecast>>
engineVars == <<engine, scenarios, trend>>
overrideVars == <<session, saved>>
procVars == <<procs>>
vars == <<ledger, clock, today, last, cache_dir, forecast, engine, scenarios,
          trend, session, saved, procs>>

---------------------------------------------------------------------------
(* Bounds of the model *)

MaxLedger == 3      \* rows the ledger may hold
MaxDay == 1         \* the last day number (0 .. MaxDay)

---------------------------------------------------------------------------
(* Nullable values *)

None == << >>
Some(x) == <<x>>
IsNone(v) == Len(v) = 0
Get(v) == v[1]

---------------------------------------------------------------------------
(* Input domains *)

Projects == {"P1", "P2"}
Activities == {"Impl", "Test"}
Users == {"u@x"}
Days == 0 .. MaxDay
ValidChangeTypes == {"initial", "extension", "correction", "reduction"}
ChangeTypeInputs == ValidChangeTypes \cup {"adjustment"}
HourInputs == {-100, 0, 100, 200}
ReasonInputs == {"", "because"}
ReferenceInputs == {None, Some(""), Some("CR-1")}

Args(p, a, h, t, d, r, ref, u) ==
    [project_id |-> p, activity |-> a, hours |-> h, change_type |-> t,
     valid_from |-> d, reason |-> r, reference |-> ref, created_by |-> u]

(* The argument tuples save_budget_entry is called with: every project,    *)
(* activity, positive amount and date with a plain reason; every change    *)
(* type; and the boundary amounts, reasons and references.                 *)
SaveInputs ==
    { Args(p, a, 100, "initial", d, "because", None, "u@x") :
        p \in Projects, a \in Activities, d \in Days }
    \cup
    { Args("P1", "Impl", 100, t, 0, "because", None, "u@x") :
        t \in ChangeTypeInputs }
    \cup
    { Args("P1", "Impl", 100, "initial", 0, "because", ref, "u@x") :
        ref \in ReferenceInputs }
    \cup
    { Args("P1", "Impl", h, "extension", 0, r, None, "u@x") :
        h \in HourInputs, r \in ReasonInputs }

---------------------------------------------------------------------------
(* JSON text.  A file is a sequence of bytes.  A byte of a JSON document   *)
(* is identified by the lexeme it belongs to (the key k and the value v)   *)
(* and its position i in that lexeme.  The braces and each key with its    *)
(* punctuation have a fixed width and are one byte each; a value has the   *)
(* width of its literal, so documents of different values differ in        *)
(* length as the texts json.dump writes do.                                *)

Str(s) == [t |-> "str", s |-> s, n |-> 0]
Num(n) == [t |-> "num", s |-> "", n |-> n]
Bool(b) == [t |-> "bool", s |-> "", n |-> IF b THEN 1 ELSE 0]
Stamp(n) == [t |-> "stamp", s |-> "", n |-> n]
Punct(c) == [t |-> "punct", s |-> c, n |-> 0]

StrLen(s) ==
    CASE s = "" -> 0
      [] s = "ab" -> 2
      [] s = "abcd" -> 4
      [] s = "u@x" -> 3
      [] s = "v@xy" -> 4
      [] s = "P1" -> 2
      [] s = "P2" -> 2
      [] s = "P1_Impl" -> 7
      [] s = "Impl" -> 4
      [] s = "Test" -> 4
      [] OTHER -> 7

RECURSIVE Digits(_)
Digits(n) == IF n < 10 THEN 1 ELSE 1 + Digits(n \div 10)

(* repr of the float n/100: sign, integer digits, point, fraction.         *)
NumWidth(n) ==
    LET m == IF n < 0 THEN -n ELSE n
    IN  (IF n < 0 THEN 1 ELSE 0) + Digits(m \div 100) + 1
        + (IF m % 10 = 0 THEN 1 ELSE 2)

Width(v) ==
    CASE v.t = "str" -> StrLen(v.s) + 2
      [] v.t = "num" -> NumWidth(v.n)
      [] v.t = "bool" -> IF v.n = 1 THEN 4 ELSE 5
      [] v.t = "stamp" -> 3
      [] OTHER -> 1

Byte(k, v, i) == [k |-> k, v |-> v, i |-> i]
OpenBrace == Byte("", Punct("{"), 1)
CloseBrace == Byte("", Punct("}"), 1)
KeyByte(k) == Byte(k, Punct(":"), 1)

EncodeValue(k, v) == [i \in 1 .. Width(v) |-> Byte(k, v, i)]

RECURSIVE EncodeFields(_)
EncodeFields(doc) ==
    IF doc = << >> THEN << >>
    ELSE <<KeyByte(Head(doc)[1])>> \o EncodeValue(Head(doc)[1], Head(doc)[2])
         \o EncodeFields(Tail(doc))

(* json.dump(data, f, indent=2) of a flat dict, keys in insertion order.   *)
JsonDump(doc) == <<OpenBrace>> \o EncodeFields(doc) \o <<CloseBrace>>

(* json.load: the dict, or None where the parser raises.                   *)
RECURSIVE ParseFields(_, _)
ParseFields(text, pos) ==
    IF pos > Len(text) THEN None
    ELSE IF text[pos] = CloseBrace
    THEN (IF pos = Len(text) THEN Some(<< >>) ELSE None)
    ELSE IF text[pos].v # Punct(":") \/ pos + 1 > Len(text) THEN None
    ELSE LET k == text[pos].k
             v == text[pos + 1].v
             w == Width(v)
         IN  IF v.t = "punct" \/ pos + w > Len(text) THEN None
             ELSE IF \E j \in 1 .. w : text[pos + j] # Byte(k, v, j) THEN None
             ELSE LET rest == ParseFields(text, pos + w + 1)
                  IN  IF IsNone(rest) THEN None
                      ELSE Some(<<<<k, v>>>> \o Get(rest))

JsonLoad(text) ==
    IF Len(text) >= 2 /\ text[1] = OpenBrace THEN ParseFields(text, 2) ELSE None

(* data.get(key): the value of the key in a parsed dict, or None.          *)
DictGet(doc, key) ==
    IF \E i \in 1 .. Len(doc) : doc[i][1] = key
    THEN Some(doc[CHOOSE i \in 1 .. Len(doc) : doc[i][1] = key][2])
    ELSE None

---------------------------------------------------------------------------
(* The cache directory and the legacy target-hours cache (CacheManager)    *)

NoFiles == << >>

(* The parts an underscore separates in a name.                            *)
Parts(name) == IF name = "P1_Impl" THEN <<"P1", "Impl">> ELSE <<name>>

Exists(dir, name) == name \in DOMAIN dir

WriteFile(dir, name, text) ==
    [n \in DOMAIN dir \cup {name} |-> IF n = name THEN text ELSE dir[n]]

(* f"targets_{project}_{activity}.json" *)
TargetsFile(project, activity) ==
    <<"targets">> \o Parts(project) \o Parts(activity) \o <<".json">>

TargetsDoc(project, activity, target_hours, now) ==
    << <<"project", Str(project)>>, <<"activity", Str(activity)>>,
       <<"target_hours", Num(target_hours)>>, <<"timestamp", Stamp(now)>> >>

CacheSaveTargetHours(dir, project, activity, target_hours, now) ==
    WriteFile(dir, TargetsFile(project, activity),
              JsonDump(TargetsDoc(project, activity, target_hours, now)))

(* load_all_target_hours: the (project, activity, target_hours) of every   *)
(* targets_*.json file that parses and has the three values.               *)
TargetOfFile(text) ==
    LET data == JsonLoad(text)
    IN  IF IsNone(data) THEN None
        ELSE LET project == DictGet(Get(data), "project")
                 activity == DictGet(Get(data), "activity")
                 target_hours == DictGet(Get(data), "target_hours")
             IN  IF \/ IsNone(project) \/ IsNone(activity)
                    \/ IsNone(target_hours)
                 THEN None
                 ELSE IF Get(project).s = "" \/ Get(activity).s = ""
                 THEN None
                 ELSE Some([project |-> Get(project).s,
                            activity |-> Get(activity).s,
                            target_hours |-> Get(target_hours).n])

CachedTargets(dir) ==
    { Get(TargetOfFile(dir[n])) :
        n \in { m \in DOMAIN dir : /\ Head(m) = "targets"
                                  /\ m[Len(m)] = ".json"
                                  /\ ~IsNone(TargetOfFile(dir[m])) } }

(* targets[project][activity]; listdir order decides between two files of  *)
(* one pair, which the file name rules out here.                           *)
load_all_target_hours(dir, project) ==
    { t \in CachedTargets(dir) : t.project = project }

(* clear_cache("all"): every file of the directory is removed.             *)
Cleared(dir) == NoFiles

---------------------------------------------------------------------------
(* The override store (load_forecast_overrides, save_forecast_overrides)   *)

MaxSaves == 1       \* saves to the override store

OverrideKeys == { <<"P1", None>>, <<"P1", Some("Impl")>>, <<"P1_Impl", None>> }
OverrideHours == {500, 1000}
OverrideReasons == {"ab"}

(* f"{project_id}{'_' + activity if activity else ''}" *)
KeySuffix(project_id, activity) ==
    Parts(project_id) \o (IF IsNone(activity) THEN << >> ELSE Parts(Get(activity)))

(* f"cache/forecast_{project_id}{'_' + activity if activity else ''}.json" *)
ForecastFile(project_id, activity) ==
    <<"forecast">> \o KeySuffix(project_id, activity) \o <<".json">>

OverrideDoc(hours_per_sprint, reason, now, user_email, active) ==
    << <<"hours_per_sprint", Num(hours_per_sprint)>>, <<"reason", Str(reason)>>,
       <<"updated_at", Stamp(now)>>, <<"updated_by", Str(user_email)>>,
       <<"active", Bool(active)>> >>

(* save_forecast_overrides with nothing running beside it: open(.., 'w')   *)
(* and json.dump leave the file with the text of the new record.           *)
save_forecast_overrides(dir, project_id, hours, reason, user, activity, active, now) ==
    WriteFile(dir, ForecastFile(project_id, activity),
              JsonDump(OverrideDoc(hours, reason, now, user, active)))

(* load_forecast_overrides: None for a missing or unparsable file, else    *)
(* the dict, with active = True where the key is missing.                  *)
load_forecast_overrides(dir, project_id, activity) ==
    LET cache_file == ForecastFile(project_id, activity)
    IN  IF ~Exists(dir, cache_file) THEN None
        ELSE LET data == JsonLoad(dir[cache_file])
             IN  IF IsNone(data) THEN None
                 ELSE IF IsNone(DictGet(Get(data), "active"))
                 THEN Some(Append(Get(data), <<"active", Bool(TRUE)>>))
                 ELSE data

(* overrides[key] of a loaded record *)
Field(overrides, key) == Get(DictGet(Get(overrides), key))

(* overrides and overrides.get('active', True) *)
IsActive(overrides) ==
    ~IsNone(overrides) /\ Field(overrides, "active") = Bool(TRUE)

NoSaves == [k \in OverrideKeys |-> None]

---------------------------------------------------------------------------
(* Numbers of the forecast.  A float is a rational [n, d] with d > 0 in    *)
(* lowest terms, in the unit of 1/100 hour for hours; only the standard    *)
(* deviation, a square root, is rounded (down, to that unit).              *)

RECURSIVE GCD(_, _)
GCD(a, b) == IF b = 0 THEN a ELSE GCD(b, a % b)

Abs(x) == IF x < 0 THEN -x ELSE x

Rat(n, d) ==
    LET g == GCD(Abs(n), Abs(d))
        sgn == IF d < 0 THEN -1 ELSE 1
    IN  IF n = 0 THEN [n |-> 0, d |-> 1]
        ELSE [n |-> sgn * (n \div g), d |-> sgn * (d \div g)]

RInt(k) == [n |-> k, d |-> 1]

(* Products are cancelled crosswise and sums taken over the least common   *)
(* denominator, which keeps the intermediate integers small.               *)
RMul(x, y) ==
    LET a == Rat(x.n, y.d)
        b == Rat(y.n, x.d)
    IN  Rat(a.n * b.n, a.d * b.d)
RDiv(x, y) == RMul(x, Rat(y.d, y.n))
RAdd(x, y) ==
    LET g == GCD(x.d, y.d)
    IN  Rat(x.n * (y.d \div g) + y.n * (x.d \div g), (x.d \div g) * y.d)
RSub(x, y) == RAdd(x, Rat(-y.n, y.d))
RLt(x, y) == x.n * y.d < y.n * x.d
RLe(x, y) == x.n * y.d <= y.n * x.d
RMax(x, y) == IF RLt(x, y) THEN y ELSE x

(* The largest r with r * r <= v, by bisection of lo .. hi.                *)
RECURSIVE SqrtBetween(_, _, _)
SqrtBetween(v, lo, hi) ==
    IF lo >= hi THEN lo
    ELSE LET mid == (lo + hi + 1) \div 2
         IN  IF mid * mid <= v THEN SqrtBetween(v, mid, hi)
             ELSE SqrtBetween(v, lo, mid - 1)

ISqrt(v) == SqrtBetween(v, 0, 46340)

---------------------------------------------------------------------------
(* The forecast engine (ForecastEngine)                                    *)

SPRINT_DURATION_DAYS == 14
ANALYSIS_SPRINTS == 4

(* SPRINT_WEIGHTS = [0.10, 0.20, 0.30, 0.40], in hundredths, indexed from  *)
(* 0 as the Python list is.                                                *)
SPRINT_WEIGHTS(i) ==
    CASE i = 0 -> 10 [] i = 1 -> 20 [] i = 2 -> 30 [] i = 3 -> 40

MaxBookings == 4    \* bookings of a series

(* A booking is dated days_ago days before today and carries Stunden in    *)
(* 1/100 hour.  -1 is a booking dated tomorrow; 13 and 14 lie on either    *)
(* side of the first sprint boundary, 56 is past the last sprint.          *)
BookingDays == {-1, 13, 14, 28, 42, 56}
BookingHours == {50, 250}
BookingInputs == [days_ago : BookingDays, hours : BookingHours]

(* The rows of bookings_df, listed oldest first and, within a day, smaller *)
(* amounts first: the sums and groups the engine takes of them do not      *)
(* depend on the order of the rows.                                        *)
NotBefore(a, b) ==
    \/ b.days_ago < a.days_ago
    \/ b.days_ago = a.days_ago /\ a.hours <= b.hours

RECURSIVE BookingSeries(_)
BookingSeries(n) ==
    IF n = 0 THEN { << >> }
    ELSE LET shorter == BookingSeries(n - 1)
             longest == { r \in shorter : Len(r) = n - 1 }
         IN  shorter \cup
             { Append(q[1], q[2]) :
                 q \in { p \in longest \X BookingInputs :
                            p[1] = << >> \/ NotBefore(p[1][Len(p[1])], p[2]) } }

(* days_ago // SPRINT_DURATION_DAYS, Python's floor division.              *)
FloorDiv(a, b) == IF a >= 0 THEN a \div b ELSE -((-a + b - 1) \div b)

SprintNumber(b) == FloorDiv(b.days_ago, SPRINT_DURATION_DAYS)

RECURSIVE SumBookings(_)
SumBookings(bs) ==
    IF bs = << >> THEN 0 ELSE Head(bs).hours + SumBookings(Tail(bs))

(* _calculate_sprint_data: the bookings of the last four sprints grouped   *)
(* by sprint number, each group with its hours and its weight; a sprint    *)
(* without bookings has no row.                                            *)
RecentBookingsInclusive(bookings) ==
    SelectSeq(bookings, LAMBDA b : SprintNumber(b) <= ANALYSIS_SPRINTS)

RecentBookings(bookings) ==
    SelectSeq(bookings, LAMBDA b : SprintNumber(b) < ANALYSIS_SPRINTS)

SprintNumbers(bookings) ==
    { SprintNumber(RecentBookings(bookings)[i]) :
        i \in 1 .. Len(RecentBookings(bookings)) }

SprintHours(bookings, x) ==
    SumBookings(SelectSeq(RecentBookings(bookings),
                          LAMBDA b : SprintNumber(b) = x))

SprintWeightOldestFirst(x) ==
    IF x < ANALYSIS_SPRINTS THEN SPRINT_WEIGHTS(x) ELSE 0

SprintWeight(x) ==
    IF x < ANALYSIS_SPRINTS THEN SPRINT_WEIGHTS(ANALYSIS_SPRINTS - 1 - x) ELSE 0

(* SPRINT_WEIGHTS[ANALYSIS_SPRINTS - 1 - x] raises IndexError when the     *)
(* index is past the end of the list, that is when a retained booking has  *)
(* a negative sprint number; ForecastEngine(...) then builds no engine.    *)
IndexError(bookings) ==
    \E x \in SprintNumbers(bookings) :
        ANALYSIS_SPRINTS - 1 - x >= ANALYSIS_SPRINTS

calculate_sprint_data(bookings) ==
    [x \in SprintNumbers(bookings) |->
        [hours |-> SprintHours(bookings, x), weight |-> SprintWeight(x)]]

RECURSIVE SumHoursOf(_, _)
SumHoursOf(sprint_data, S) ==
    IF S = {} THEN 0
    ELSE LET x == CHOOSE y \in S : TRUE
         IN  sprint_data[x].hours + SumHoursOf(sprint_data, S \ {x})

RECURSIVE SumWeights(_, _)
SumWeights(sprint_data, S) ==
    IF S = {} THEN 0
    ELSE LET x == CHOOSE y \in S : TRUE
         IN  sprint_data[x].weight + SumWeights(sprint_data, S \ {x})

RECURSIVE SumWeightedHours(_, _)
SumWeightedHours(sprint_data, S) ==
    IF S = {} THEN 0
    ELSE LET x == CHOOSE y \in S : TRUE
         IN  sprint_data[x].hours * sprint_data[x].weight
                 + SumWeightedHours(sprint_data, S \ {x})

weighted_sum_not_normalised(sprint_data) ==
    Rat(SumWeightedHours(sprint_data, DOMAIN sprint_data), 100)

(* calculate_weighted_sprint_average *)
calculate_weighted_sprint_average(sprint_data) ==
    LET S == DOMAIN sprint_data
        weighted_hours == SumWeightedHours(sprint_data, S)
        total_weight == SumWeights(sprint_data, S)
    IN  IF S = {} THEN RInt(0)
        ELSE IF total_weight = 0
        THEN Rat(SumHoursOf(sprint_data, S), Cardinality(S))
        ELSE Rat(weighted_hours, total_weight)

(* self.sprint_data['hours'].std(): the sample standard deviation          *)
(* sqrt(sum((x - mean)^2) / (n - 1)) = sqrt(sum((n x - S)^2) / (n^2 (n-1))) *)
RECURSIVE SumSquares(_, _, _, _)
SumSquares(sprint_data, S, n, total) ==
    IF S = {} THEN 0
    ELSE LET x == CHOOSE y \in S : TRUE
             dev == n * sprint_data[x].hours - total
         IN  dev * dev + SumSquares(sprint_data, S \ {x}, n, total)

SprintStd(sprint_data) ==
    LET S == DOMAIN sprint_data
        n == Cardinality(S)
        total == SumHoursOf(sprint_data, S)
    IN  ISqrt(SumSquares(sprint_data, S, n, total) \div (n * n * (n - 1)))

(* The floor of the pessimistic scenario, 0.1 hours.                       *)
NoFloor == Rat(0, 1)
PessimisticFloor == Rat(10, 1)

DefaultConfidence == Rat(2, 10)
Sigma == Rat(15, 10)

ScenarioInWeeks(hours_per_sprint, remaining_hours) ==
    IF RLt(RInt(0), hours_per_sprint)
    THEN [hours_per_sprint |-> hours_per_sprint,
          sprints_remaining |-> Some(RDiv(remaining_hours, hours_per_sprint)),
          end_date |-> Some(RMul(RDiv(remaining_hours, hours_per_sprint),
                                 RInt(7)))]
    ELSE [hours_per_sprint |-> hours_per_sprint,
          sprints_remaining |-> None,
          end_date |-> None]

Scenario(hours_per_sprint, remaining_hours) ==
    IF RLt(RInt(0), hours_per_sprint)
    THEN [hours_per_sprint |-> hours_per_sprint,
          sprints_remaining |-> Some(RDiv(remaining_hours, hours_per_sprint)),
          end_date |-> Some(RMul(RDiv(remaining_hours, hours_per_sprint),
                                 RInt(SPRINT_DURATION_DAYS)))]
    ELSE [hours_per_sprint |-> hours_per_sprint,
          sprints_remaining |-> None,
          end_date |-> None]

(* A truthy test of the manual value: 0.0 counts as absent.                *)
BaseHoursIfTruthy(manual_hours_per_sprint, auto_hours_per_sprint) ==
    IF ~IsNone(manual_hours_per_sprint)
       /\ Get(manual_hours_per_sprint) # RInt(0)
    THEN Get(manual_hours_per_sprint)
    ELSE auto_hours_per_sprint

(* manual_hours_per_sprint if manual_hours_per_sprint is not None else     *)
(* auto_hours_per_sprint                                                   *)
BaseHours(manual_hours_per_sprint, auto_hours_per_sprint) ==
    IF ~IsNone(manual_hours_per_sprint)
    THEN Get(manual_hours_per_sprint)
    ELSE auto_hours_per_sprint

(* calculate_scenarios(manual_hours_per_sprint).  sprints_remaining None   *)
(* is float('inf'); end_date is in days after today.                       *)
calculate_scenarios(bookings, target_hours, manual_hours_per_sprint) ==
    LET sprint_data == calculate_sprint_data(bookings)
        auto_hours_per_sprint == calculate_weighted_sprint_average(sprint_data)
        base_hours == BaseHours(manual_hours_per_sprint, auto_hours_per_sprint)
        confidence_factor ==
            IF Cardinality(DOMAIN sprint_data) >= 2
            THEN (IF RLt(RInt(0), base_hours)
                  THEN RDiv(RInt(SprintStd(sprint_data)), base_hours)
                  ELSE DefaultConfidence)
            ELSE DefaultConfidence
        total_booked == SumBookings(bookings)
        remaining_hours == RMax(RInt(0), RSub(target_hours, RInt(total_booked)))
        spread == RMul(confidence_factor, Sigma)
    IN  [optimistic |->
            Scenario(RMul(base_hours, RAdd(RInt(1), spread)), remaining_hours),
         realistic |-> Scenario(base_hours, remaining_hours),
         pessimistic |->
            Scenario(RMax(RMul(base_hours, RSub(RInt(1), spread)),
                          PessimisticFloor), remaining_hours),
         base_hours_per_sprint |-> base_hours,
         automatic_hours_per_sprint |-> auto_hours_per_sprint,
         confidence_factor |-> confidence_factor,
         remaining_hours |-> remaining_hours,
         total_booked |-> total_booked]

(* get_sprint_velocity_trend: the least-squares slope of hours over sprint *)
(* number.  With n sprints, sums sx of the numbers and sy of the hours,    *)
(* (X - x_mean) is (n x - sx) / n and (y - y_mean) is (n y - sy) / n, so    *)
(* numerator / denominator is the quotient of the sums below.              *)
RECURSIVE SumNumbers(_)
SumNumbers(S) ==
    IF S = {} THEN 0
    ELSE LET x == CHOOSE y \in S : TRUE IN x + SumNumbers(S \ {x})

RECURSIVE SumProducts(_, _, _, _, _)
SumProducts(sprint_data, S, n, sx, sy) ==
    IF S = {} THEN 0
    ELSE LET x == CHOOSE y \in S : TRUE
         IN  (n * x - sx) * (n * sprint_data[x].hours - sy)
                 + SumProducts(sprint_data, S \ {x}, n, sx, sy)

RECURSIVE SumSquaredNumbers(_, _, _)
SumSquaredNumbers(S, n, sx) ==
    IF S = {} THEN 0
    ELSE LET x == CHOOSE y \in S : TRUE
         IN  (n * x - sx) * (n * x - sx) + SumSquaredNumbers(S \ {x}, n, sx)

Sign(q) == IF q.n > 0 THEN 1 ELSE IF q.n < 0 THEN -1 ELSE 0

(* The thresholds of the trend, 2 hours per sprint, in 1/100 hour.         *)
TrendThreshold == RInt(200)

ClassifyInclusive(slope) ==
    IF RLe(TrendThreshold, slope) THEN "increasing"
    ELSE IF RLe(slope, RSub(RInt(0), TrendThreshold)) THEN "decreasing"
    ELSE "stable"

Classify(slope) ==
    IF RLt(TrendThreshold, slope) THEN "increasing"
    ELSE IF RLt(slope, RSub(RInt(0), TrendThreshold)) THEN "decreasing"
    ELSE "stable"

get_sprint_velocity_trend(sprint_data) ==
    LET S == DOMAIN sprint_data
        n == Cardinality(S)
        sx == SumNumbers(S)
        sy == SumHoursOf(sprint_data, S)
        numerator == SumProducts(sprint_data, S, n, sx, sy)
        denominator == SumSquaredNumbers(S, n, sx)
        slope == IF denominator # 0 THEN Rat(numerator, denominator) ELSE RInt(0)
    IN  IF n < 2
        THEN [trend |-> "insufficient_data", slope |-> RInt(0), direction |-> 0]
        ELSE [trend |-> Classify(slope), slope |-> slope,
              direction |-> Sign(slope)]

---------------------------------------------------------------------------
(* The BudgetHistory table *)

(* ID INTEGER PRIMARY KEY AUTOINCREMENT: one more than the largest id.     *)
MaxId(tbl) ==
    IF tbl = << >> THEN 0
    ELSE CHOOSE m \in { tbl[i].ID : i \in 1 .. Len(tbl) } :
            \A i \in 1 .. Len(tbl) : tbl[i].ID <= m

AutoIncrement(tbl) == MaxId(tbl) + 1

(* The CHECK constraints of the table; NOT NULL holds of every argument    *)
(* drawn here but the reference, which is nullable.                        *)
CheckConstraintsNoHours(row) ==
    row.ChangeType \in ValidChangeTypes

CheckConstraints(row) ==
    /\ row.Hours >= 0
    /\ row.ChangeType \in ValidChangeTypes

(* params of save_budget_entry: `reference if reference else None`.        *)
NormaliseReference(ref) ==
    IF IsNone(ref) \/ ref = Some("") THEN None ELSE ref

InsertRow(args, tbl, now) ==
    [ID |-> AutoIncrement(tbl),
     ProjectID |-> args.project_id,
     Activity |-> args.activity,
     Hours |-> args.hours,
     ChangeType |-> args.change_type,
     ValidFrom |-> args.valid_from,
     Reason |-> args.reason,
     Reference |-> NormaliseReference(args.reference),
     CreatedBy |-> args.created_by,
     CreatedAt |-> now]

(* INSERT OR REPLACE on the (project, activity) key instead of INSERT.     *)
ExecuteUpsert(args, tbl, now) ==
    LET row == InsertRow(args, tbl, now)
        kept == SelectSeq(tbl, LAMBDA r :
                    r.ProjectID # row.ProjectID \/ r.Activity # row.Activity)
    IN  IF CheckConstraints(row)
        THEN [ok |-> TRUE, table |-> Append(kept, row)]
        ELSE [ok |-> FALSE, table |-> tbl]
(* execute_non_query on the INSERT: the row is committed and True is       *)
(* returned, or the statement raises, the connection's context manager     *)
(* rolls back and False is returned.                                       *)
ExecuteInsert(args, tbl, now) ==
    LET row == InsertRow(args, tbl, now)
    IN  IF CheckConstraints(row)
        THEN [ok |-> TRUE, table |-> Append(tbl, row)]
        ELSE [ok |-> FALSE, table |-> tbl]

---------------------------------------------------------------------------
(* Queries *)

(* A sum that takes the hours of a reduction off.                          *)
RECURSIVE SumHoursSigned(_)
SumHoursSigned(rows) ==
    IF rows = << >> THEN 0
    ELSE (IF Head(rows).ChangeType = "reduction"
          THEN -Head(rows).Hours ELSE Head(rows).Hours)
         + SumHoursSigned(Tail(rows))

RECURSIVE SumHours(_)
SumHours(rows) ==
    IF rows = << >> THEN 0 ELSE Head(rows).Hours + SumHours(Tail(rows))

(* SUM(Hours) is NULL over no rows.                                        *)
SqlSum(rows) == IF rows = << >> THEN None ELSE Some(SumHours(rows))

Coalesce(v, d) == IF IsNone(v) THEN d ELSE Get(v)

WhereAtDateStrict(p, a, D) ==
    SelectSeq(ledger, LAMBDA r :
        r.ProjectID = p /\ r.Activity = a /\ r.ValidFrom < D)

WhereAtDate(p, a, D) ==
    SelectSeq(ledger, LAMBDA r :
        r.ProjectID = p /\ r.Activity = a /\ r.ValidFrom <= D)

get_budget_at_date(p, a, D) == Coalesce(SqlSum(WhereAtDate(p, a, D)), 0)

---------------------------------------------------------------------------
(* Operations of the ledger *)

(* What `last` keeps of a call: the operation, whether it returned True,    *)
(* and the arguments the write boundary has to judge; of a submission of   *)
(* the budget form, the fields as they were typed.                         *)
Called(op, ok, args) ==
    [op |-> op, ok |-> ok, activity |-> args.activity, hours |-> args.hours,
     change_type |-> args.change_type, reason |-> args.reason]

NoOp == [op |-> "none", ok |-> TRUE, activity |-> "", hours |-> 0,
         change_type |-> "initial", reason |-> ""]

NoForecast ==
    [project |-> "", activity |-> None, target_hours |-> 0, computed |-> FALSE]

NoEngine == [bookings |-> << >>, target_hours |-> 0]
NoSession == << >>
NoProcs == << >>

Init ==
    /\ ledger = << >>
    /\ clock = 0
    /\ today = 0
    /\ last = NoOp
    /\ cache_dir = NoFiles
    /\ forecast = NoForecast
    /\ engine = NoEngine
    /\ scenarios = None
    /\ trend = None
    /\ session = NoSession
    /\ saved = NoSaves
    /\ procs = NoProcs

save_budget_entry(args) ==
    /\ Len(ledger) < MaxLedger
    /\ LET res == ExecuteInsert(args, ledger, clock)
       IN  /\ ledger' = res.table
           /\ last' = Called("save_budget_entry", res.ok, args)
    /\ UNCHANGED <<clock, today, cacheVars, uiVars, engineVars, overrideVars,
                   procVars>>

NextLedger ==
    \E args \in SaveInputs : save_budget_entry(args)

SpecLedger == Init /\ [][NextLedger]_vars

(* get_budget_history(project_id, activity): the rows of the project, of   *)
(* the one activity when a non-empty activity is given, in the order of    *)
(* the query's ORDER BY.  SQL leaves the order of rows that tie on every   *)
(* ORDER BY column open, so the query has a set of possible results.       *)
ActivityRank(a) == CASE a = "" -> 0 [] a = "Impl" -> 1 [] a = "Test" -> 2

HistoryRows(project_id, activity) ==
    { i \in 1 .. Len(ledger) :
        /\ ledger[i].ProjectID = project_id
        /\ (~IsNone(activity) /\ Get(activity) # "")
              => ledger[i].Activity = Get(activity) }

(* ORDER BY ValidFrom DESC, CreatedAt DESC *)
NewestFirst(r1, r2) ==
    \/ r1.ValidFrom > r2.ValidFrom
    \/ r1.ValidFrom = r2.ValidFrom /\ r1.CreatedAt >= r2.CreatedAt

(* ORDER BY Activity, ValidFrom DESC, CreatedAt DESC *)
ByActivityNewestFirst(r1, r2) ==
    \/ ActivityRank(r1.Activity) < ActivityRank(r2.Activity)
    \/ r1.Activity = r2.Activity /\ NewestFirst(r1, r2)

OrderBy(project_id, activity, r1, r2) ==
    IF ~IsNone(activity) /\ Get(activity) # ""
    THEN NewestFirst(r1, r2)
    ELSE ByActivityNewestFirst(r1, r2)

get_budget_history(project_id, activity) ==
    LET S == HistoryRows(project_id, activity)
        n == Cardinality(S)
    IN  { [i \in 1 .. n |-> ledger[f[i]]] :
            f \in { g \in [1 .. n -> S] :
                      /\ \A i, j \in 1 .. n : i # j => g[i] # g[j]
                      /\ \A i, j \in 1 .. n :
                            i < j => OrderBy(project_id, activity,
                                             ledger[g[i]], ledger[g[j]]) } }

(* get_all_budgets_at_date: one total per (project, activity) group that   *)
(* has a row valid at D; {} for an empty project list.                     *)
GroupKeysOfAllProjects(ps, D) ==
    { <<ledger[i].ProjectID, ledger[i].Activity>> :
        i \in { j \in 1 .. Len(ledger) : ledger[j].ValidFrom <= D } }

GroupKeys(ps, D) ==
    { <<ledger[i].ProjectID, ledger[i].Activity>> :
        i \in { j \in 1 .. Len(ledger) :
                  ledger[j].ProjectID \in ps /\ ledger[j].ValidFrom <= D } }

get_all_budgets_at_date(ps, D) ==
    [k \in GroupKeys(ps, D) |-> SumHours(WhereAtDate(k[1], k[2], D))]

(* get_all_activities_for_project: SELECT DISTINCT Activity ... ORDER BY   *)
(* Activity, as a list.                                                    *)
OrderByActivity(S) ==
    CHOOSE f \in [1 .. Cardinality(S) -> S] :
        \A i, j \in 1 .. Cardinality(S) :
            i < j => ActivityRank(f[i]) < ActivityRank(f[j])

get_all_activities_for_project(p) ==
    OrderByActivity({ ledger[i].Activity :
        i \in { j \in 1 .. Len(ledger) : ledger[j].ProjectID = p } })

---------------------------------------------------------------------------
(* The in-memory ledger of test mode (TestDatabaseConfig).  Its state is   *)
(* the list budget_history; the operators take it as a parameter.          *)

(* save_budget_entry: the entry is built from the arguments as they are    *)
(* given and appended; the id counter stands one past the entries.         *)
TestEntry(args, budget_history, now) ==
    [ID |-> Len(budget_history) + 1,
     ProjectID |-> args.project_id,
     Activity |-> args.activity,
     Hours |-> args.hours,
     ChangeType |-> args.change_type,
     ValidFrom |-> args.valid_from,
     Reason |-> args.reason,
     Reference |-> args.reference,
     CreatedBy |-> args.created_by,
     CreatedAt |-> now]

TestSaveBudgetEntry(args, budget_history, now) ==
    [ok |-> TRUE,
     budget_history |-> Append(budget_history,
                               TestEntry(args, budget_history, now))]

(* get_budget_at_date: sum() of the hours of the filtered entries.         *)
TestFiltered(budget_history, p, a, D) ==
    SelectSeq(budget_history, LAMBDA b :
        b.ProjectID = p /\ b.Activity = a /\ b.ValidFrom <= D)

TestBudgetAtDate(budget_history, p, a, D) ==
    SumHours(TestFiltered(budget_history, p, a, D))

(* get_all_budgets_at_date: the nested dictionary, as a function of the    *)
(* (project, activity) pairs it holds.                                     *)
TestAllBudgetsAtDate(budget_history, ps, D) ==
    [k \in { <<budget_history[i].ProjectID, budget_history[i].Activity>> :
               i \in { j \in 1 .. Len(budget_history) :
                         /\ budget_history[j].ProjectID \in ps
                         /\ budget_history[j].ValidFrom <= D } }
       |-> SumHours(TestFiltered(budget_history, k[1], k[2], D))]

(* get_all_activities_for_project: sorted(list(activities)).               *)
TestAllActivitiesForProject(budget_history, p) ==
    OrderByActivity({ budget_history[i].Activity :
        i \in { j \in 1 .. Len(budget_history) :
                  budget_history[j].ProjectID = p } })

---------------------------------------------------------------------------
(* The application (TimeTrackingApp, BudgetManager)                        *)

MaxEdits == 2       \* rows the application's writes may add to the ledger

QuickEditInputs == {150, 250}
FormHourInputs == {0, 100}
FormActivityInputs == {"", " ", " Impl "}
EditedProjects == {"P1"}
FormReasonInputs == {"", " ", " ab "}
FormChangeTypes == {"initial", "reduction"}

(* load_target_hours(projects, target_date): the ledger when a project     *)
(* list is given, the legacy cache when none is.                           *)
LedgerTargets(ps, D) ==
    { [project |-> k[1], activity |-> k[2],
       target_hours |-> get_all_budgets_at_date(ps, D)[k]] :
      k \in DOMAIN get_all_budgets_at_date(ps, D) }

load_target_hours(ps, D) ==
    IF ps # {} THEN LedgerTargets(ps, D) ELSE CachedTargets(cache_dir)

RECURSIVE SumTargets(_)
SumTargets(ts) ==
    IF ts = {} THEN 0
    ELSE LET t == CHOOSE x \in ts : TRUE
         IN  t.target_hours + SumTargets(ts \ {t})

(* all_targets.get(projekt, {}) *)
ProjectTargets(all_targets, project) ==
    { t \in all_targets : t.project = project }

(* project_targets.get(activity, 0.0) *)
ActivityTarget(project_targets, activity) ==
    IF \E t \in project_targets : t.activity = activity
    THEN (CHOOSE t \in project_targets : t.activity = activity).target_hours
    ELSE 0

(* create_dashboard_table: the Sollstunden shown for (project, activity).  *)
Sollstunden(project, activity) ==
    ActivityTarget(ProjectTargets(load_target_hours(Projects, today), project),
                   activity)

(* process_target_hour_changes and save_target_hours: an edited cell of    *)
(* the dashboard is written to the legacy cache and appended to the ledger *)
(* as a correction valid from today.                                       *)
QuickEdit(project, activity, edited_target) ==
    /\ Len(ledger) < MaxEdits
    /\ LET original_target == Sollstunden(project, activity)
           diff == IF original_target > edited_target
                   THEN original_target - edited_target
                   ELSE edited_target - original_target
           args == Args(project, activity, edited_target, "correction", today,
                        "Quick edit from dashboard (legacy)", None, "u@x")
           res == ExecuteInsert(args, ledger, clock)
       IN  /\ diff > 1
           /\ cache_dir' = CacheSaveTargetHours(cache_dir, project, activity,
                                                edited_target, clock)
           /\ ledger' = res.table
           /\ last' = Called("save_target_hours", res.ok, args)
    /\ forecast' = NoForecast
    /\ UNCHANGED <<clock, today, engineVars, overrideVars, procVars>>

(* A text taken as it was typed.                                           *)
AsTyped(s) == s

(* str.strip() on the texts the form's fields are given here.              *)
strip(s) ==
    CASE s = " " -> ""
      [] s = " Impl " -> "Impl"
      [] s = " ab " -> "ab"
      [] OTHER -> s

(* _show_budget_entry_form: the submit handler.                            *)
SubmitBudgetForm(project, activity, hours, change_type, valid_from, reason) ==
    /\ Len(ledger) < MaxEdits
    /\ LET typed == Args(project, activity, hours, change_type, valid_from,
                         reason, None, "u@x")
           args == Args(project, strip(activity), hours, change_type,
                        valid_from, strip(reason), None, "u@x")
           res == ExecuteInsert(args, ledger, clock)
       IN  IF \/ activity = "" \/ strip(activity) = ""
              \/ hours <= 0
              \/ reason = "" \/ strip(reason) = ""
           THEN /\ ledger' = ledger
                /\ last' = Called("form_rejected", FALSE, typed)
           ELSE /\ ledger' = res.table
                /\ last' = Called("form_saved", res.ok, typed)
    /\ forecast' = NoForecast
    /\ UNCHANGED <<clock, today, cacheVars, engineVars, overrideVars, procVars>>

(* The admin button: cache_manager.clear_cache().                          *)
ClearCache ==
    /\ cache_dir' = Cleared(cache_dir)
    /\ last' = [NoOp EXCEPT !.op = "clear_cache"]
    /\ forecast' = NoForecast
    /\ scenarios' = None
    /\ trend' = None
    /\ UNCHANGED <<ledgerVars, engine, overrideVars, procVars>>

(* run(), "Projekt-Übersicht": the target of the project's forecast.       *)
ForecastProject(project) ==
    /\ LET all_targets == load_target_hours({}, today)
           project_targets == ProjectTargets(all_targets, project)
           total_target == SumTargets(project_targets)
       IN  forecast' = [project |-> project, activity |-> None,
                        target_hours |-> total_target,
                        computed |-> total_target > 0]
    /\ last' = [NoOp EXCEPT !.op = "forecast"]
    /\ UNCHANGED <<ledgerVars, cacheVars, engineVars, overrideVars, procVars>>

(* run(), "Nach Activity": the target of one activity's forecast.          *)
ForecastActivity(project, activity) ==
    /\ LET all_targets == load_target_hours({}, today)
           project_targets == ProjectTargets(all_targets, project)
           activity_target == ActivityTarget(project_targets, activity)
       IN  forecast' = [project |-> project, activity |-> Some(activity),
                        target_hours |-> activity_target,
                        computed |-> activity_target > 0]
    /\ last' = [NoOp EXCEPT !.op = "forecast"]
    /\ UNCHANGED <<ledgerVars, cacheVars, engineVars, overrideVars, procVars>>

NextDay ==
    /\ today < MaxDay
    /\ today' = today + 1
    /\ last' = [NoOp EXCEPT !.op = "next_day"]
    /\ forecast' = NoForecast
    /\ UNCHANGED <<ledger, clock, cacheVars, engineVars, overrideVars, procVars>>

Next ==
    \/ \E p \in EditedProjects, a \in Activities, x \in QuickEditInputs :
          QuickEdit(p, a, x)
    \/ \E p \in EditedProjects, a \in FormActivityInputs, h \in FormHourInputs,
          t \in FormChangeTypes, d \in Days, r \in FormReasonInputs :
          SubmitBudgetForm(p, a, h, t, d, r)
    \/ ClearCache
    \/ \E p \in Projects : ForecastProject(p)
    \/ \E p \in Projects, a \in Activities : ForecastActivity(p, a)
    \/ NextDay

Spec == Init /\ [][Next]_vars

---------------------------------------------------------------------------
(* The Scenario Projector on its own: an engine built from any booking     *)
(* series and target, and calculate_scenarios called on it.                *)

TargetInputs == {0, 300}
ManualInputs == {None, Some(0), Some(5), Some(50), Some(400)}
EngineInputs ==
    [bookings : BookingSeries(MaxBookings), target_hours : TargetInputs]

(* manual_hours_per_sprint: Optional[float] *)
AsFloat(manual) == IF IsNone(manual) THEN None ELSE Some(RInt(Get(manual)))

Computed(component, project_id, activity, bookings, target_hours, manual) ==
    Some([component |-> component, project |-> project_id,
          activity |-> activity, manual |-> manual,
          result |-> calculate_scenarios(bookings, RInt(target_hours),
                                         AsFloat(manual))])

InitScenarios ==
    /\ ledger = << >>
    /\ clock = 0
    /\ today = 0
    /\ last = NoOp
    /\ cache_dir = NoFiles
    /\ forecast = NoForecast
    /\ engine \in EngineInputs
    /\ scenarios = None
    /\ trend = None
    /\ session = NoSession
    /\ saved = NoSaves
    /\ procs = NoProcs

CalculateScenarios(manual) ==
    /\ ~IndexError(engine.bookings)
    /\ scenarios' = Computed("calculate_scenarios", "", None, engine.bookings,
                             engine.target_hours, manual)
    /\ last' = [NoOp EXCEPT !.op = "calculate_scenarios"]
    /\ trend' = None
    /\ UNCHANGED <<ledgerVars, cacheVars, uiVars, engine, overrideVars, procVars>>

NextScenarios == \E manual \in ManualInputs : CalculateScenarios(manual)

SpecScenarios == InitScenarios /\ [][NextScenarios]_vars

(* The velocity trend on its own: get_sprint_velocity_trend called on an   *)
(* engine built from any booking series.                                   *)
GetSprintVelocityTrend ==
    /\ ~IndexError(engine.bookings)
    /\ trend' = Some(get_sprint_velocity_trend(
                        calculate_sprint_data(engine.bookings)))
    /\ last' = [NoOp EXCEPT !.op = "get_sprint_velocity_trend"]
    /\ UNCHANGED <<ledgerVars, cacheVars, uiVars, engine, scenarios,
                   overrideVars, procVars>>

NextVelocityTrend == GetSprintVelocityTrend

SpecVelocityTrend == InitScenarios /\ [][NextVelocityTrend]_vars

---------------------------------------------------------------------------
(* The forecast views and the override store.  A session value is kept     *)
(* under the key suffix of its view; the three mf_* values of a view are   *)
(* initialised together on its first rendering.                            *)

ViewKeys == { <<"P1", None>>, <<"P1", Some("Impl")>> }
RenderBookings ==
    { << >>,
      << [days_ago |-> 0, hours |-> 600], [days_ago |-> 14, hours |-> 1300] >> }
RenderTargets == {0, 10000}
Interactions == {"none", "toggle", "hours", "save"}
TypedHours == {700}

(* float(auto_value), in 1/100 hour *)
AsHours(r) == r.n \div r.d

(* A direct call of save_forecast_overrides.                               *)
SaveForecastOverrides(project_id, hours_per_sprint, reason, user_email, activity, active) ==
    /\ clock < MaxSaves
    /\ cache_dir' = save_forecast_overrides(cache_dir, project_id,
                        hours_per_sprint, reason, user_email, activity, active,
                        clock)
    /\ clock' = clock + 1
    /\ saved' = [saved EXCEPT ![<<project_id, activity>>] =
                    Some([hours_per_sprint |-> hours_per_sprint,
                          reason |-> reason, updated_by |-> user_email,
                          active |-> active])]
    /\ scenarios' = None
    /\ trend' = None
    /\ last' = [NoOp EXCEPT !.op = "save_forecast_overrides"]
    /\ UNCHANGED <<ledger, today, uiVars, engine, session, procVars>>

(* The mf_* values a first rendering puts into the session state.          *)
InitialSession(overrides, auto_value) ==
    [use |-> IsActive(overrides),
     hours |-> IF IsActive(overrides)
               THEN Field(overrides, "hours_per_sprint").n
               ELSE AsHours(auto_value),
     reason |-> IF ~IsNone(overrides) THEN Field(overrides, "reason").s ELSE ""]

(* What the user did to the widgets of the previous rendering.             *)
AfterInteraction(values, interaction, typed) ==
    CASE interaction = "toggle" -> [values EXCEPT !.use = ~values.use]
      [] interaction = "hours" -> [values EXCEPT !.hours = typed]
      [] OTHER -> values

(* The mf_* values of a view when its script starts: those of the session  *)
(* state, initialised from the stored record on the first rendering.       *)
SessionValues(project_id, activity, bookings) ==
    IF KeySuffix(project_id, activity) \in DOMAIN session
    THEN session[KeySuffix(project_id, activity)]
    ELSE InitialSession(load_forecast_overrides(cache_dir, project_id, activity),
             calculate_weighted_sprint_average(calculate_sprint_data(bookings)))

(* The widget of an interaction was drawn by the previous rendering: the   *)
(* view returns before its widgets without a target or without bookings,   *)
(* and the number input and the save button are drawn only while the box   *)
(* is checked.                                                             *)
WidgetExists(project_id, activity, bookings, target_hours, interaction) ==
    /\ interaction # "none" => KeySuffix(project_id, activity) \in DOMAIN session
    /\ interaction \in {"hours", "save"} =>
          SessionValues(project_id, activity, bookings).use
    /\ (target_hours <= 0 \/ bookings = << >>) => interaction = "none"

(* The save button: save_forecast_overrides with the session values.       *)
StoredBySave(project_id, activity, values) ==
    save_forecast_overrides(cache_dir, project_id, values.hours, values.reason, "u@x", activity, values.use, clock)

(* render_forecast_scenarios.  Nothing happens without a target or without *)
(* bookings.  The save button stores the session values and reruns the     *)
(* script, which computes the scenarios from the session state.            *)
RenderForecastScenarios(project_id, activity, bookings, target_hours, interaction, typed) ==
    LET k == KeySuffix(project_id, activity)
        before == SessionValues(project_id, activity, bookings)
        values == AfterInteraction(before, interaction, typed)
        active_hours == IF values.use THEN Some(values.hours) ELSE None
    IN  /\ WidgetExists(project_id, activity, bookings, target_hours, interaction)
        /\ interaction = "save" => clock < MaxSaves
        /\ last' = [NoOp EXCEPT !.op = "render_forecast_scenarios"]
        /\ IF target_hours <= 0 \/ bookings = << >>
           THEN /\ scenarios' = None
                /\ trend' = None
                /\ UNCHANGED <<ledgerVars, cacheVars, uiVars, engine,
                               overrideVars, procVars>>
           ELSE /\ engine' = [bookings |-> bookings,
                              target_hours |-> target_hours]
                /\ session' = [j \in DOMAIN session \cup {k} |->
                                 IF j = k THEN values ELSE session[j]]
                /\ IF interaction = "save"
                   THEN /\ cache_dir' = StoredBySave(project_id, activity, values)
                        /\ clock' = clock + 1
                        /\ saved' = [saved EXCEPT ![<<project_id, activity>>] =
                                       Some([hours_per_sprint |-> values.hours,
                                             reason |-> values.reason,
                                             updated_by |-> "u@x",
                                             active |-> values.use])]
                   ELSE UNCHANGED <<clock, cache_dir, saved>>
                /\ scenarios' = Computed("render_forecast_scenarios",
                                    project_id, activity, bookings,
                                    target_hours, active_hours)
                /\ trend' = Some(get_sprint_velocity_trend(
                                    calculate_sprint_data(bookings)))
                /\ UNCHANGED <<ledger, today, uiVars, procVars>>

(* render_scenario_chart, lines 246-268: the active value.                 *)
chart_active_hours(dir, sess, project_id, activity, manual_param, use_param) ==
    LET k == KeySuffix(project_id, activity)
        use1 == IF IsNone(use_param) /\ k \in DOMAIN sess
                THEN Some(sess[k].use) ELSE use_param
        manual1 == IF IsNone(manual_param) /\ k \in DOMAIN sess
                   THEN Some(sess[k].hours) ELSE manual_param
        overrides == load_forecast_overrides(dir, project_id, activity)
        fallback == (IsNone(use1) \/ IsNone(manual1)) /\ ~IsNone(overrides)
        use2 == IF fallback /\ IsNone(use1)
                THEN Some(IsActive(overrides)) ELSE use1
        manual2 == IF fallback /\ IsNone(manual1)
                   THEN Some(Field(overrides, "hours_per_sprint").n)
                   ELSE manual1
    IN  IF ~IsNone(use2) /\ Get(use2) THEN manual2 ELSE None

(* render_scenario_chart as run() calls it after render_forecast_scenarios *)
(* of the same view: with the value that returned and with                 *)
(* st.session_state.get(k_use, False).                                     *)
RenderScenarioChart(project_id, activity, bookings, target_hours) ==
    LET k == KeySuffix(project_id, activity)
        returned == IF k \in DOMAIN session /\ session[k].use
                    THEN Some(session[k].hours) ELSE None
        use_manual == Some(k \in DOMAIN session /\ session[k].use)
        active_hours == chart_active_hours(cache_dir, session, project_id,
                                           activity, returned, use_manual)
    IN  /\ last' = [NoOp EXCEPT !.op = "render_scenario_chart"]
        /\ IF target_hours <= 0 \/ bookings = << >>
           THEN scenarios' = None /\ UNCHANGED engine
           ELSE /\ k \in DOMAIN session
                /\ engine' = [bookings |-> bookings,
                              target_hours |-> target_hours]
                /\ scenarios' = Computed("render_scenario_chart", project_id,
                                    activity, bookings, target_hours,
                                    active_hours)
        /\ trend' = None
        /\ UNCHANGED <<ledgerVars, cacheVars, uiVars, overrideVars, procVars>>

(* render_burndown_chart with show_scenarios: the stored hours_per_sprint  *)
(* of any record that loads is the manual value.                           *)
RenderBurndownChart(project_id, activity, bookings, target_hours) ==
    LET overrides == load_forecast_overrides(cache_dir, project_id, activity)
        manual_hours == IF ~IsNone(overrides)
                        THEN Some(Field(overrides, "hours_per_sprint").n)
                        ELSE None
    IN  /\ last' = [NoOp EXCEPT !.op = "render_burndown_chart"]
        /\ IF target_hours <= 0 \/ bookings = << >>
           THEN scenarios' = None /\ UNCHANGED engine
           ELSE /\ engine' = [bookings |-> bookings,
                              target_hours |-> target_hours]
                /\ scenarios' = Computed("render_burndown_chart", project_id,
                                    activity, bookings, target_hours,
                                    manual_hours)
        /\ trend' = None
        /\ UNCHANGED <<ledgerVars, cacheVars, uiVars, overrideVars, procVars>>

NextOverrides ==
    \/ \E key \in OverrideKeys, h \in OverrideHours, r \in OverrideReasons,
          active \in BOOLEAN :
          SaveForecastOverrides(key[1], h, r, "v@xy", key[2], active)
    \/ \E key \in ViewKeys, b \in RenderBookings, t \in RenderTargets,
          i \in Interactions, x \in TypedHours :
          RenderForecastScenarios(key[1], key[2], b, t, i, x)
    \/ \E key \in ViewKeys, b \in RenderBookings, t \in RenderTargets :
          RenderScenarioChart(key[1], key[2], b, t)
    \/ \E key \in ViewKeys, b \in RenderBookings, t \in RenderTargets :
          RenderBurndownChart(key[1], key[2], b, t)
    \/ ClearCache

SpecOverrides == Init /\ [][NextOverrides]_vars

---------------------------------------------------------------------------
(* Two concurrent save_budget_entry calls on the SQLite ledger.  Each call *)
(* opens its own connection; cursor.execute begins a transaction and runs  *)
(* the INSERT under the database's write lock, conn.commit() makes the row *)
(* visible and releases the lock.  A connection that finds the lock held   *)
(* waits for it (sqlite3.connect's busy timeout).                          *)

Writers == {1, 2}

ConcurrentSaveInputs ==
    { Args(p, a, 100, "initial", d, "because", None, "u@x") :
        p \in Projects, a \in Activities, d \in Days }

SeedRow ==
    InsertRow(Args("P1", "Impl", 200, "initial", 0, "because", None, "u@x"),
              << >>, 0)

Idle == [pc |-> "start", ok |-> FALSE, row |-> None]

NoWriteLock(ps, w) == TRUE

(* No other connection holds the write lock.                               *)
WriteLockFree(ps, w) ==
    \A v \in Writers \ {w} : ps[v].pc # "executed"

InitConcurrentSave ==
    /\ ledger \in { << >>, <<SeedRow>> }
    /\ clock = 0
    /\ today = 0
    /\ last = NoOp
    /\ cache_dir = NoFiles
    /\ forecast = NoForecast
    /\ engine = NoEngine
    /\ scenarios = None
    /\ trend = None
    /\ session = NoSession
    /\ saved = NoSaves
    /\ procs = [w \in Writers |-> Idle]

(* cursor.execute(query, params) *)
SaveExecute(w, args) ==
    /\ procs[w].pc = "start"
    /\ WriteLockFree(procs, w)
    /\ LET row == InsertRow(args, ledger, clock)
       IN  procs' = [procs EXCEPT ![w] =
                        IF CheckConstraints(row)
                        THEN [pc |-> "executed", ok |-> FALSE, row |-> Some(row)]
                        ELSE [pc |-> "returned", ok |-> FALSE, row |-> None]]
    /\ last' = [NoOp EXCEPT !.op = "execute"]
    /\ UNCHANGED <<ledgerVars, cacheVars, uiVars, engineVars, overrideVars>>

(* conn.commit() *)
SaveCommit(w) ==
    /\ procs[w].pc = "executed"
    /\ ledger' = Append(ledger, Get(procs[w].row))
    /\ procs' = [procs EXCEPT ![w].pc = "committed"]
    /\ last' = [NoOp EXCEPT !.op = "commit"]
    /\ UNCHANGED <<clock, today, cacheVars, uiVars, engineVars, overrideVars>>

(* return True *)
SaveReturn(w) ==
    /\ procs[w].pc = "committed"
    /\ procs' = [procs EXCEPT ![w].pc = "returned", ![w].ok = TRUE]
    /\ last' = [NoOp EXCEPT !.op = "return"]
    /\ UNCHANGED <<ledgerVars, cacheVars, uiVars, engineVars, overrideVars>>

NextConcurrentSave ==
    \/ \E w \in Writers, args \in ConcurrentSaveInputs : SaveExecute(w, args)
    \/ \E w \in Writers : SaveCommit(w)
    \/ \E w \in Writers : SaveReturn(w)

SpecConcurrentSave == InitConcurrentSave /\ [][NextConcurrentSave]_vars

---------------------------------------------------------------------------
(* Two concurrent save_forecast_overrides calls on one key.  open(.., 'w') *)
(* truncates the file; json.dump fills the file object's buffer, which is  *)
(* written at the file position 0 of this open when the with block closes  *)
(* the file.                                                               *)

WriterHours == {500, 1000}
WriterReasons == {"", "ab"}
WriterUser(w) == IF w = 1 THEN "u@x" ELSE "v@xy"

NotOpen == [pc |-> "start", doc |-> << >>, text |-> << >>]

(* write(2) of text at position 0 of a file holding old.                   *)
WriteAtStart(old, text) ==
    [i \in 1 .. (IF Len(old) > Len(text) THEN Len(old) ELSE Len(text)) |->
        IF i <= Len(text) THEN text[i] ELSE old[i]]

InitConcurrentOverride ==
    /\ ledger = << >>
    /\ clock = 0
    /\ today = 0
    /\ last = NoOp
    /\ cache_dir = NoFiles
    /\ forecast = NoForecast
    /\ engine = NoEngine
    /\ scenarios = None
    /\ trend = None
    /\ session = NoSession
    /\ saved = NoSaves
    /\ procs = [w \in Writers |-> NotOpen]

(* data = {...}; os.makedirs; open(cache_file, 'w') *)
OverrideOpen(w, project_id, hours_per_sprint, reason, activity, active) ==
    /\ procs[w].pc = "start"
    /\ LET doc == OverrideDoc(hours_per_sprint, reason, clock, WriterUser(w),
                              active)
       IN  procs' = [procs EXCEPT ![w] =
                        [pc |-> "open", doc |-> doc, text |-> JsonDump(doc)]]
    /\ clock' = clock + 1
    /\ cache_dir' = WriteFile(cache_dir, ForecastFile(project_id, activity),
                              << >>)
    /\ last' = [NoOp EXCEPT !.op = "open"]
    /\ UNCHANGED <<ledger, today, uiVars, engineVars, overrideVars>>

(* json.dump(data, f, indent=2) and the close of the with block *)
OverrideClose(w, project_id, activity) ==
    /\ procs[w].pc = "open"
    /\ LET cache_file == ForecastFile(project_id, activity)
       IN  cache_dir' = WriteFile(cache_dir, cache_file,
                            WriteAtStart(cache_dir[cache_file], procs[w].text))
    /\ procs' = [procs EXCEPT ![w].pc = "returned"]
    /\ last' = [NoOp EXCEPT !.op = "close"]
    /\ UNCHANGED <<ledgerVars, uiVars, engineVars, overrideVars>>

NextConcurrentOverride ==
    \/ \E w \in Writers, h \in WriterHours, r \in WriterReasons,
          active \in BOOLEAN : OverrideOpen(w, "P1", h, r, None, active)
    \/ \E w \in Writers : OverrideClose(w, "P1", None)

SpecConcurrentOverride ==
    InitConcurrentOverride /\ [][NextConcurrentOverride]_vars

---------------------------------------------------------------------------
(* Claims about the ledger *)

Rows == 1 .. Len(ledger)

RECURSIVE SumOfRows(_)
SumOfRows(S) ==
    IF S = {} THEN 0
    ELSE LET i == CHOOSE j \in S : TRUE
         IN  ledger[i].Hours + SumOfRows(S \ {i})

Qualifying(p, a, D) ==
    { i \in Rows : /\ ledger[i].ProjectID = p
                   /\ ledger[i].Activity = a
                   /\ ledger[i].ValidFrom <= D }

(* C1: in every reachable ledger state and for every project p, activity   *)
(* a and date D, get_budget_at_date(p, a, D) is the sum of the hours of    *)
(* the rows of (p, a) with valid_from <= D, and 0 when there is no such    *)
(* row.                                                                    *)
C1_BudgetAtDateIsSum ==
    \A p \in Projects, a \in Activities, D \in Days :
        /\ get_budget_at_date(p, a, D) = SumOfRows(Qualifying(p, a, D))
        /\ Qualifying(p, a, D) = {} => get_budget_at_date(p, a, D) = 0

(* A ledger where the query has rows to count, a row dated after the       *)
(* target date and a row of another activity to leave out.                 *)
C1_Witness ==
    /\ get_budget_at_date("P1", "Impl", 0) = 200
    /\ \E i \in Rows : ledger[i].ProjectID = "P1" /\ ledger[i].Activity = "Impl"
                       /\ ledger[i].ValidFrom > 0
    /\ get_budget_at_date("P1", "Test", 0) = 0

(* C17: for every project list ps and date D, get_all_budgets_at_date(ps,  *)
(* D) holds the pair (p, a) exactly when p is in ps and the ledger has a   *)
(* row of (p, a) with valid_from <= D, the value it holds is               *)
(* get_budget_at_date(p, a, D), the single query returns 0 for every pair  *)
(* it does not hold, and it holds no project outside ps.                   *)
C17_AllBudgetsAgreeWithSingleQuery ==
    \A ps \in SUBSET Projects, D \in Days :
        LET budgets == get_all_budgets_at_date(ps, D)
        IN  /\ \A k \in DOMAIN budgets : k[1] \in ps
            /\ \A p \in ps, a \in Activities \cup {""} :
                  /\ <<p, a>> \in DOMAIN budgets <=> Qualifying(p, a, D) # {}
                  /\ <<p, a>> \in DOMAIN budgets =>
                        budgets[<<p, a>>] = get_budget_at_date(p, a, D)
                  /\ <<p, a>> \notin DOMAIN budgets =>
                        get_budget_at_date(p, a, D) = 0

(* A ledger with a row of P1 valid at day 0, a row of P1 valid only later  *)
(* and a row of P2: the query for P1 at day 0 holds the first pair alone.  *)
C17_Witness ==
    /\ DOMAIN get_all_budgets_at_date({"P1"}, 0) = { <<"P1", "Impl">> }
    /\ get_all_budgets_at_date({"P1"}, 0)[<<"P1", "Impl">>] = 100
    /\ Qualifying("P1", "Test", 1) # {}
    /\ Qualifying("P2", "Impl", 0) # {}

(* C18: every result of get_budget_history(project_id, activity?) holds   *)
(* each entry of the project once, only those of the activity when one is  *)
(* given, ordered by valid_from descending and then created_at descending, *)
(* also when no activity is given and the project has entries of several   *)
(* activities.                                                             *)
C18_HistoryNewestFirst ==
    \A p \in Projects, activity \in {None} \cup { Some(a) : a \in Activities } :
        \A history \in get_budget_history(p, activity) :
            /\ \A r \in Rows :
                  ( /\ ledger[r].ProjectID = p
                    /\ ~IsNone(activity) => ledger[r].Activity = Get(activity) )
                  <=> Cardinality({ i \in 1 .. Len(history) :
                                      history[i] = ledger[r] }) = 1
            /\ \A i, j \in 1 .. Len(history) :
                  i < j =>
                      \/ history[i].ValidFrom > history[j].ValidFrom
                      \/ /\ history[i].ValidFrom = history[j].ValidFrom
                         /\ history[i].CreatedAt >= history[j].CreatedAt

C6_EmptyReasonRejected ==
    /\ (last.op = "save_budget_entry" /\ last.reason = "") => ~last.ok
    /\ \A i \in Rows : ledger[i].Reason # ""

---------------------------------------------------------------------------
(* Claims about the application *)

(* C2: the ledger is append-only.  Every step of the application (form     *)
(* submissions, dashboard quick edits, cache clearing, forecasts) keeps    *)
(* every row that was in the ledger, unchanged and in place, and a         *)
(* successful save adds exactly one row.                                   *)
C2_AppendOnly ==
    [][ /\ Len(ledger') >= Len(ledger)
        /\ Len(ledger') <= Len(ledger) + 1
        /\ \A i \in 1 .. Len(ledger) : ledger'[i] = ledger[i]
        /\ (last'.op \in {"save_target_hours", "form_saved"} /\ last'.ok)
              => Len(ledger') = Len(ledger) + 1
        /\ last'.op \notin {"save_target_hours", "form_saved"}
              => ledger' = ledger ]_vars

(* Two rows of one (project, activity) are in the ledger after a quick     *)
(* edit, and the cache has been cleared since.                             *)
C2_Witness ==
    /\ Len(ledger) = 2
    /\ ledger[1].ProjectID = ledger[2].ProjectID
    /\ ledger[1].Activity = ledger[2].Activity
    /\ ledger[2].ChangeType = "correction"
    /\ last.op = "clear_cache"

RECURSIVE LedgerProjectTotal(_, _, _)
LedgerProjectTotal(p, as, D) ==
    IF as = {} THEN 0
    ELSE LET a == CHOOSE x \in as : TRUE
         IN  get_budget_at_date(p, a, D) + LedgerProjectTotal(p, as \ {a}, D)

(* C7: the target_hours a forecast hands to the Scenario Projector is the  *)
(* ledger's total as of today: of the project in the project view, of the  *)
(* activity in the per-activity view.                                      *)
C7_ForecastTargetIsLedgerTotal ==
    (last.op = "forecast" /\ forecast.computed) =>
        forecast.target_hours =
            IF IsNone(forecast.activity)
            THEN LedgerProjectTotal(forecast.project, Activities, today)
            ELSE get_budget_at_date(forecast.project, Get(forecast.activity),
                                    today)

(* C21: right after a quick edit of the dashboard has saved the target X   *)
(* for a (project, activity), the dashboard loaded for today shows         *)
(* Sollstunden = X for that pair, whatever the ledger held before and      *)
(* however many edits came before.                                         *)
C21_QuickEditShowsEnteredTarget ==
    (last.op = "save_target_hours" /\ last.ok) =>
        LET entry == ledger[Len(ledger)]
        IN  Sollstunden(entry.ProjectID, entry.Activity) = last.hours

(* C27: the ledger total never decreases: get_budget_at_date(p, a, D1) <=  *)
(* get_budget_at_date(p, a, D2) whenever D1 <= D2 (stated for each day and *)
(* the next, which gives every D1 <= D2), and an accepted entry of any     *)
(* change type, reductions and corrections included, leaves the total of   *)
(* every (p, a, D) equal or larger than it was before the entry was        *)
(* appended, larger by the entry's hours for its own pair at every         *)
(* D >= valid_from.                                                        *)
BudgetBeforeNewest(p, a, D) ==
    SumHours(SelectSeq(SubSeq(ledger, 1, Len(ledger) - 1), LAMBDA r :
        r.ProjectID = p /\ r.Activity = a /\ r.ValidFrom <= D))

C27_TotalNeverDecreases ==
    /\ \A p \in Projects, a \in Activities, D \in Days :
          (D + 1) \in Days =>
              get_budget_at_date(p, a, D) <= get_budget_at_date(p, a, D + 1)
    /\ (last.op = "save_budget_entry" /\ last.ok) =>
          /\ Len(ledger) > 0
          /\ \A p \in Projects, a \in Activities, D \in Days :
                LET entry == ledger[Len(ledger)]
                IN  /\ BudgetBeforeNewest(p, a, D) <= get_budget_at_date(p, a, D)
                    /\ ( /\ entry.ProjectID = p
                         /\ entry.Activity = a
                         /\ D >= entry.ValidFrom ) =>
                            get_budget_at_date(p, a, D)
                              = BudgetBeforeNewest(p, a, D) + entry.Hours

(* A reduction of 1 hour has been accepted on top of an earlier entry of   *)
(* the pair, and the total is the sum of both.                             *)
C27_Witness ==
    /\ last.op = "save_budget_entry"
    /\ last.ok
    /\ last.change_type = "reduction"
    /\ Len(ledger) = 2
    /\ get_budget_at_date("P1", "Impl", 0) = 200

(* C28: the in-memory ledger of test mode and the SQLite ledger are        *)
(* observationally equivalent: started from the same entries and fed the   *)
(* same save_budget_entry call, both return the same result for the save   *)
(* and afterwards the same get_budget_at_date, get_all_budgets_at_date and *)
(* get_all_activities_for_project on every argument.                       *)
C28_TestLedgerIsEquivalent ==
    [][ \A args \in SaveInputs :
          LET sqlite == ExecuteInsert(args, ledger, clock)
              memory == TestSaveBudgetEntry(args, ledger, clock)
          IN  ( /\ ledger' = sqlite.table
                /\ last' = Called("save_budget_entry", sqlite.ok, args) ) =>
                  /\ memory.ok = sqlite.ok
                  /\ \A p \in Projects, a \in Activities, D \in Days :
                        TestBudgetAtDate(memory.budget_history, p, a, D)
                          = get_budget_at_date(p, a, D)'
                  /\ \A ps \in SUBSET Projects, D \in Days :
                        TestAllBudgetsAtDate(memory.budget_history, ps, D)
                          = get_all_budgets_at_date(ps, D)'
                  /\ \A p \in Projects :
                        TestAllActivitiesForProject(memory.budget_history, p)
                          = get_all_activities_for_project(p)' ]_vars

(* C29: the budget entry form never writes an invalid entry: a submission *)
(* whose activity is empty or whitespace-only, whose hours are <= 0, or    *)
(* whose reason is empty or whitespace-only makes no save_budget_entry     *)
(* call and leaves the ledger unchanged; every entry the form writes has   *)
(* hours > 0 and a non-empty, trimmed activity and reason.                 *)
Blank == {"", " "}
Padded == {" ", " Impl ", " ab "}

C29_FormWritesOnlyValidEntries ==
    [][ last'.op \in {"form_saved", "form_rejected"} =>
          /\ ( \/ last'.activity \in Blank
               \/ last'.hours <= 0
               \/ last'.reason \in Blank ) =>
                  /\ last'.op = "form_rejected"
                  /\ ledger' = ledger
          /\ last'.op = "form_saved" =>
                \/ ledger' = ledger /\ ~last'.ok
                \/ /\ Len(ledger') = Len(ledger) + 1
                   /\ LET entry == ledger'[Len(ledger')]
                      IN  /\ entry.Hours > 0
                          /\ entry.Activity \notin Blank \cup Padded
                          /\ entry.Reason \notin Blank \cup Padded ]_vars

(* A submission with a whitespace-only reason has been turned away after   *)
(* the form had written an entry.                                          *)
C29_Witness ==
    /\ last.op = "form_rejected"
    /\ last.reason = " "
    /\ last.hours > 0
    /\ \E i \in 1 .. Len(ledger) : ledger[i].Reason = "ab"

---------------------------------------------------------------------------
(* Claims about the Scenario Projector *)

Result == Get(scenarios).result

ScenariosOrdered(r) ==
    /\ RLe(r.realistic.hours_per_sprint, r.optimistic.hours_per_sprint)
    /\ RLe(r.pessimistic.hours_per_sprint, r.realistic.hours_per_sprint)
    /\ RLe(Rat(10, 1), r.pessimistic.hours_per_sprint)

ScenarioKeys == {"optimistic", "realistic", "pessimistic"}

(* C11: a scenario whose hours_per_sprint is 0, or that is computed when   *)
(* the remaining budget is already 0 (total booked >= target_hours), has   *)
(* sprints_remaining = +infinity and end_date = null; sprints_remaining    *)
(* is finite and end_date is dated only when hours_per_sprint > 0 and      *)
(* remaining > 0.                                                          *)
C11_NoProjectionWithoutRemaining ==
    ~IsNone(scenarios) =>
        \A key \in ScenarioKeys :
            LET sc == Result[key]
                no_projection ==
                    \/ sc.hours_per_sprint = RInt(0)
                    \/ RLe(Result.remaining_hours, RInt(0))
            IN  /\ no_projection =>
                    IsNone(sc.sprints_remaining) /\ IsNone(sc.end_date)
                /\ (~IsNone(sc.sprints_remaining) \/ ~IsNone(sc.end_date)) =>
                    /\ RLt(RInt(0), sc.hours_per_sprint)
                    /\ RLt(RInt(0), Result.remaining_hours)

(* The end date e1 of the faster scenario is not after the end date e2 of  *)
(* the slower one; a missing end date is later than every date.            *)
EndNotAfter(e1, e2) ==
    IF IsNone(e2) THEN TRUE
    ELSE IF IsNone(e1) THEN FALSE
    ELSE RLe(Get(e1), Get(e2))

(* C12: for every result of calculate_scenarios with confidence_factor     *)
(* >= 0, base_hours = 0 included, optimistic.end_date <=                   *)
(* realistic.end_date <= pessimistic.end_date, and no faster scenario      *)
(* lacks an end date while a slower one has one.                           *)
C12_EndDatesOrdered ==
    (~IsNone(scenarios) /\ RLe(RInt(0), Result.confidence_factor)) =>
        /\ EndNotAfter(Result.optimistic.end_date, Result.realistic.end_date)
        /\ EndNotAfter(Result.realistic.end_date, Result.pessimistic.end_date)

(* The sprint list of the engine under construction, and the bookings of   *)
(* the k-th 14-day window before today.                                    *)
SprintList == calculate_sprint_data(engine.bookings)

InWindow(b, k) ==
    /\ SPRINT_DURATION_DAYS * k <= b.days_ago
    /\ b.days_ago < SPRINT_DURATION_DAYS * (k + 1)

WindowHours(k) ==
    SumBookings(SelectSeq(engine.bookings, LAMBDA b : InWindow(b, k)))

(* C13: the sprint list an engine is built with has at most 4 entries,     *)
(* their sprint numbers are distinct and lie in 0..3, entry k sums exactly *)
(* the bookings dated 14k .. 14k+13 days before today, a window without    *)
(* bookings has no entry, and a booking 56 or more days old is in none.    *)
C13_SprintListOfLastFourSprints ==
    ~IndexError(engine.bookings) =>
        /\ Cardinality(DOMAIN SprintList) <= 4
        /\ DOMAIN SprintList \subseteq 0 .. 3
        /\ \A k \in 0 .. 3 :
              k \in DOMAIN SprintList <=>
                  \E i \in 1 .. Len(engine.bookings) : InWindow(engine.bookings[i], k)
        /\ \A k \in DOMAIN SprintList : SprintList[k].hours = WindowHours(k)

(* An engine built from bookings 56, 42 and 14 days old: sprints 3 and 1   *)
(* are listed, sprints 2 and 0 are not, the oldest booking is dropped.     *)
C13_Witness ==
    /\ ~IndexError(engine.bookings)
    /\ { engine.bookings[i].days_ago : i \in 1 .. Len(engine.bookings) } = {56, 42, 14}
    /\ DOMAIN SprintList = {1, 3}
    /\ last.op = "calculate_scenarios"

(* The weight of a sprint by its recency, in 1/100.                        *)
RecencyWeight(k) == 40 - 10 * k

HoursTimesWeight(k) ==
    IF k \in DOMAIN SprintList THEN SprintList[k].hours * RecencyWeight(k) ELSE 0

WeightOf(k) == IF k \in DOMAIN SprintList THEN RecencyWeight(k) ELSE 0

WeightedAverage == calculate_weighted_sprint_average(SprintList)

Listed(k) == IF k \in DOMAIN SprintList THEN 1 ELSE 0

ListedHours(k) == IF k \in DOMAIN SprintList THEN SprintList[k].hours ELSE 0

LeastSquaresSlope ==
    LET n == Listed(0) + Listed(1) + Listed(2) + Listed(3)
        Sx == Listed(1) + 2 * Listed(2) + 3 * Listed(3)
        Sxx == Listed(1) + 4 * Listed(2) + 9 * Listed(3)
        Sy == ListedHours(0) + ListedHours(1) + ListedHours(2) + ListedHours(3)
        Sxy == ListedHours(1) + 2 * ListedHours(2) + 3 * ListedHours(3)
    IN  Rat(n * Sxy - Sx * Sy, n * Sxx - Sx * Sx)

(* C16: with fewer than 2 listed sprints the trend is 'insufficient_data'  *)
(* with slope 0; with 2 or more it is 'increasing' iff the least-squares   *)
(* slope of hours against sprint number is above 2 hours, 'decreasing' iff *)
(* it is below -2 hours and 'stable' otherwise, slopes of exactly 2 and -2 *)
(* included.                                                               *)
C16_VelocityTrend ==
    ~IsNone(trend) =>
        LET t == Get(trend)
        IN  IF Cardinality(DOMAIN SprintList) < 2
            THEN t.trend = "insufficient_data" /\ t.slope = RInt(0)
            ELSE /\ t.slope = LeastSquaresSlope
                 /\ t.trend \in {"increasing", "decreasing", "stable"}
                 /\ t.trend = "increasing" <=> RLt(RInt(200), t.slope)
                 /\ t.trend = "decreasing" <=> RLt(t.slope, RInt(-200))
                 /\ (t.slope = RInt(200) \/ t.slope = RInt(-200))
                        => t.trend = "stable"

(* Sprints 0 and 1 with 0.5 and 2.5 hours: the slope is exactly 2 hours    *)
(* per sprint and the trend is 'stable'.                                   *)
C16_Witness ==
    /\ ~IsNone(trend)
    /\ DOMAIN SprintList = {0, 1}
    /\ Get(trend).slope = RInt(200)
    /\ Get(trend).trend = "stable"

(* The hours of all bookings of the series, old ones included.            *)
RECURSIVE BookedUpTo(_)
BookedUpTo(n) ==
    IF n = 0 THEN 0 ELSE engine.bookings[n].hours + BookedUpTo(n - 1)

AllBooked == BookedUpTo(Len(engine.bookings))

C30_ZeroOverrideIsHonoured ==
    (~IsNone(scenarios) /\ Get(scenarios).manual = Some(0)) =>
        /\ Result.base_hours_per_sprint = RInt(0)
        /\ Result.confidence_factor = Rat(2, 10)
        /\ \A key \in {"realistic", "optimistic"} :
              /\ Result[key].hours_per_sprint = RInt(0)
              /\ IsNone(Result[key].sprints_remaining)
              /\ IsNone(Result[key].end_date)

(* The override 0.0 on an engine with two sprints of bookings, whose       *)
(* automatic average is above 0 and whose hours have a spread.             *)
C30_Witness ==
    /\ ~IsNone(scenarios)
    /\ Get(scenarios).manual = Some(0)
    /\ Cardinality(DOMAIN SprintList) >= 2
    /\ RLt(RInt(0), Result.automatic_hours_per_sprint)
    /\ \E j, k \in DOMAIN SprintList : SprintList[j].hours # SprintList[k].hours
    /\ Result.base_hours_per_sprint = RInt(0)

(* C22: the trend is 'increasing' only when the hours rise over time, the *)
(* more recent sprints (lower sprint number) having more hours than the    *)
(* older ones, and 'decreasing' only when they fall; with sprints 0 and 1  *)
(* alone, 'increasing' implies hours(0) > hours(1) and 'decreasing'        *)
(* implies hours(0) < hours(1).                                            *)
C22_TrendFollowsTime ==
    (~IsNone(trend) /\ Cardinality(DOMAIN SprintList) >= 2) =>
        /\ Get(trend).trend = "increasing" => RLt(LeastSquaresSlope, RInt(0))
        /\ Get(trend).trend = "decreasing" => RLt(RInt(0), LeastSquaresSlope)
        /\ DOMAIN SprintList = {0, 1} =>
              /\ Get(trend).trend = "increasing" =>
                    SprintList[0].hours > SprintList[1].hours
              /\ Get(trend).trend = "decreasing" =>
                    SprintList[0].hours < SprintList[1].hours

(* C25: building an engine from a non-empty booking series never raises,  *)
(* also when the series holds bookings dated after today: the sprint list  *)
(* is always built.                                                        *)
C25_EngineIsAlwaysBuilt ==
    engine.bookings # << >> => ~IndexError(engine.bookings)

---------------------------------------------------------------------------
(* Claims about the override store and the forecast views *)

Views ==
    {"render_forecast_scenarios", "render_scenario_chart",
     "render_burndown_chart"}

(* C3: whenever the stored override record of a view's key has             *)
(* active = false, the scenario computation of the view                    *)
(* (render_forecast_scenarios, render_scenario_chart,                      *)
(* render_burndown_chart) calls calculate_scenarios with no manual value,  *)
(* so base_hours is the weighted sprint average and not the stored         *)
(* hours_per_sprint.                                                       *)
C3_InactiveOverrideNotUsed ==
    (~IsNone(scenarios) /\ Get(scenarios).component \in Views) =>
        LET c == Get(scenarios)
            overrides == load_forecast_overrides(cache_dir, c.project,
                                                 c.activity)
        IN  (~IsNone(overrides) /\ ~IsActive(overrides)) =>
                /\ IsNone(c.manual)
                /\ c.result.base_hours_per_sprint =
                       c.result.automatic_hours_per_sprint

(* C10: for every key with a save, load_forecast_overrides returns a       *)
(* record whose hours_per_sprint, reason, updated_by and active are those  *)
(* of the most recent save to the key, and nothing else.                   *)
C10_OverrideRoundTrip ==
    \A key \in OverrideKeys :
        ~IsNone(saved[key]) =>
            LET overrides == load_forecast_overrides(cache_dir, key[1], key[2])
                args == Get(saved[key])
            IN  /\ ~IsNone(overrides)
                /\ Field(overrides, "hours_per_sprint") =
                       Num(args.hours_per_sprint)
                /\ Field(overrides, "reason") = Str(args.reason)
                /\ Field(overrides, "updated_by") = Str(args.updated_by)
                /\ Field(overrides, "active") = Bool(args.active)
                /\ Len(Get(overrides)) = 5

(* C20: load_forecast_overrides(p, a) returns nothing exactly when no      *)
(* record is stored for the key (p, a), and the record it returns is       *)
(* active when the stored one has no active field or an active value of    *)
(* true, and inactive when the stored value is false.                      *)
C20_LoadReturnsStoredRecord ==
    \A key \in OverrideKeys :
        LET overrides == load_forecast_overrides(cache_dir, key[1], key[2])
        IN  /\ IsNone(overrides) <=> IsNone(saved[key])
            /\ (~IsNone(overrides) /\ ~IsNone(saved[key])) =>
                  IsActive(overrides) = Get(saved[key]).active

(* C23: a save of an override for one key changes the record of that key  *)
(* only: for every other key, also a project-level key whose project id    *)
(* holds an underscore, load_forecast_overrides returns the same before    *)
(* and after the save.                                                     *)
C23_SaveTouchesOneKey ==
    [][ \A key, other \in OverrideKeys :
          ( /\ saved'[key] # saved[key]
            /\ other # key )
          => load_forecast_overrides(cache_dir', other[1], other[2])
               = load_forecast_overrides(cache_dir, other[1], other[2]) ]_vars

(* C24: once an override has been saved for a key, the load of that key    *)
(* returns a record in every later state, whatever the application does    *)
(* in between, the admin's cache clear included.                           *)
C24_StoredOverrideIsDurable ==
    \A key \in OverrideKeys :
        ~IsNone(saved[key]) =>
            ~IsNone(load_forecast_overrides(cache_dir, key[1], key[2]))

(* C26: in a view whose stored override is active and whose manual box    *)
(* the user has unchecked, some action of the user on the view stores the  *)
(* record with active = false.                                             *)
C26_OverrideCanBeDisabled ==
    \A key \in ViewKeys :
        ( /\ IsActive(load_forecast_overrides(cache_dir, key[1], key[2]))
          /\ KeySuffix(key[1], key[2]) \in DOMAIN session
          /\ ~session[KeySuffix(key[1], key[2])].use )
        => \E b \in RenderBookings, t \in RenderTargets, x \in TypedHours :
             /\ WidgetExists(key[1], key[2], b, t, "save")
             /\ ~IsActive(load_forecast_overrides(
                     StoredBySave(key[1], key[2],
                         AfterInteraction(SessionValues(key[1], key[2], b),
                                          "save", x)),
                     key[1], key[2]))

---------------------------------------------------------------------------
(* Claims about concurrent callers *)

AllReturned == \A w \in Writers : procs[w].pc = "returned"

C9_LastWriteWins ==
    AllReturned =>
        LET overrides == load_forecast_overrides(cache_dir, "P1", None)
        IN  /\ ~IsNone(overrides)
            /\ \E w \in Writers : Get(overrides) = procs[w].doc

===========================================================================
